---- MODULE Spec2Model ----
(***************************************************************************)
(* Session token coordination in CraveCart.                                *)
(*                                                                         *)
(* Part 1: UserService of the restaurant portal                            *)
(*         (web/restaurant-portal/src/services/userService.ts): an axios   *)
(*         instance whose response interceptor refreshes the token on 401  *)
(*         and queues the other failing requests behind the refresh.       *)
(* Part 2: AuthProvider of the admin portal (unnamed/part_000): global     *)
(*         axios interceptors, refreshToken(), login() and logout().       *)
(* Part 3: AuthProvider of the customer portal                             *)
(*         (web/customer-portal/src/contexts/AuthContext.tsx): login(),    *)
(*         refreshToken(), logout(), the loadUser effect and the session   *)
(*         timer.                                                          *)
(* Part 4: NotificationProvider of the admin portal (same file):           *)
(*         fetchNotifications(), markAsRead() and markAllAsRead().         *)
(*                                                                         *)
(* A browser tab runs one of the three portals.                            *)
(*                                                                         *)
(* One action is one JavaScript task: the arrival of a server answer and   *)
(* everything the handlers do until every continuation waits for the       *)
(* network again.                                                          *)
(***************************************************************************)
EXTENDS Integers, Sequences, FiniteSets, TLC

VARIABLES
    \* ---- UserService ----
    localToken,          \* localStorage "token" (NoToken when absent)
    isRefreshing,        \* UserService.isRefreshing
    refreshSubscribers,  \* UserService.refreshSubscribers, in push order
    requests,            \* the requests made through axiosInstance
    refreshCall,         \* the refreshToken() call awaited by each request's handler
    serverTok,           \* the last token the server has issued
    lastResp,            \* the last server answer handled by the response interceptor
    lastDrain,           \* the requests re-sent by the last successful refresh, in
                         \* the order of their 401 answers and in the order of the re-sends
    \* ---- admin AuthProvider ----
    adminToken,          \* sessionStorage "adminToken"
    storedRefreshToken,  \* sessionStorage "refreshToken"
    adminUser,           \* sessionStorage "adminUser"
    user,                \* React state user
    isAuthenticated,     \* React state isAuthenticated
    isInitialized,       \* React state isInitialized
    tasks,               \* the asynchronous call chains running in the admin portal
    \* ---- customer AuthProvider ----
    cToken,              \* React state token
    cStored,             \* localStorage "token"
    cUser,               \* React state user
    sessionTimeRemaining,\* React state sessionTimeRemaining
    cCalls,              \* the calls of login() and refreshToken()
    cLoads,              \* the GET /auth/me calls of loadUser in flight
    now,                 \* Date.now(), in steps of MsPerStep milliseconds
    \* ---- NotificationProvider ----
    notifications,       \* React state notifications: id and read mark of each
    unreadCount,         \* React state unreadCount
    markAll,             \* the call of markAllAsRead()
    \* ---- the tab ----
    portal               \* the portal this tab runs

usVars == <<localToken, isRefreshing, refreshSubscribers, requests, refreshCall,
            serverTok, lastResp, lastDrain>>

adVars == <<adminToken, storedRefreshToken, adminUser, user, isAuthenticated,
            isInitialized, tasks>>

cuVars == <<cToken, cStored, cUser, sessionTimeRemaining, cCalls, cLoads, now>>

noVars == <<notifications, unreadCount, markAll>>

vars == <<localToken, isRefreshing, refreshSubscribers, requests, refreshCall,
          serverTok, lastResp, lastDrain,
          adminToken, storedRefreshToken, adminUser, user, isAuthenticated,
          isInitialized, tasks,
          cToken, cStored, cUser, sessionTimeRemaining, cCalls, cLoads, now,
          notifications, unreadCount, markAll, portal>>

----------------------------------------------------------------------------
(* Bounds *)

\* number of requests the callers make through UserService
NumReqs == 2

\* most notifications in the list of the NotificationProvider
MaxNotes == 2

\* number of concurrent call chains in the admin portal
NumTasks == 2

\* most activations of the response interceptor pending at a time, over all
\* call chains
MaxNest == 2

\* value at which the counters of sends and refresh calls stop counting
MaxCount == 3

\* number of calls of login() and refreshToken() in the customer portal
NumCalls == 2

\* the clock of the customer portal stops after MaxNow steps
MaxNow == 4

\* largest exp claim, in seconds, of a token the server issues
MaxExp == 2

----------------------------------------------------------------------------
(* Part 1: UserService *)

NoToken == 0
NoHeader401 == -1
Reqs == 1 .. NumReqs

\* HTTP status classes of a server answer: success, authentication failure,
\* any other failure (other status or no response at all)
Ok == 200
Unauthorized == 401
OtherError == 500
Statuses == {Ok, Unauthorized, OtherError}

\* a request before its caller makes it
NewRequest ==
    [st |-> "new", retry |-> FALSE, hdr |-> NoToken, sends |-> 0,
     err |-> "none", behind |-> 0, rej |-> NoHeader401]

NoRefresh == [st |-> "none", arg |-> NoToken, outcome |-> "none"]

\* (mutant) the request interceptor leaves the header as it is
AttachTokenNever(hdr, stored) == hdr

\* request interceptor: the stored token, when there is one, replaces the
\* Authorization header of the outgoing request
AttachToken(hdr, stored) == IF stored # NoToken THEN stored ELSE hdr

\* axiosInstance(config): the request goes out with the header the request
\* interceptor leaves on it
Send(q, hdr, stored) ==
    [q EXCEPT !.st = "sent", !.hdr = AttachToken(hdr, stored), !.sends = @ + 1]

\* the ids of the continuations of one kind waiting in refreshSubscribers
Waiting(subs, call) ==
    {subs[i].id : i \in {j \in 1 .. Len(subs) : subs[j].call = call}}

\* (mutant) every error of a request that has not been retried starts the
\* refresh
NeedsRefreshOnAnyError(status, retry) == status # Ok /\ ~retry

\* the condition of line 138: an authentication failure of a request that
\* has not been retried
NeedsRefresh(status, retry) == status = Unauthorized /\ ~retry

\* (mutant) the interceptor never queues behind a refresh in flight
ShouldQueueNever(refreshing) == FALSE

\* the condition of line 139: queue behind the refresh in flight
ShouldQueue(refreshing) == refreshing

\* (mutant) the test of line 154 is missing
HasTokenAlways(stored) == TRUE

\* the test of line 154: localStorage has a token
HasToken(stored) == stored # NoToken

\* onTokenRefreshed: push the continuation
onTokenRefreshed(subs, call, id) == Append(subs, [call |-> call, id |-> id])

\* the refreshToken() calls whose promise has not settled
RefreshInFlight == {r \in Reqs : refreshCall[r].st # "none"}

\* the refresh calls waiting for an answer of the server
RefreshOnNetwork == {r \in Reqs : refreshCall[r].st \in {"post", "me"}}

NoDrain == [arrived |-> <<>>, replayed |-> <<>>]

NoResp == [call |-> "none", id |-> 0, status |-> Ok,
           wasRefreshing |-> FALSE, wasRetry |-> FALSE]

\* a caller makes request r through axiosInstance
Issue(r) ==
    /\ requests[r].st = "new"
    /\ requests' = [requests EXCEPT ![r] = Send(@, NoToken, localToken)]
    /\ UNCHANGED <<localToken, isRefreshing, refreshSubscribers, refreshCall,
                   serverTok, lastResp, lastDrain>>
    /\ UNCHANGED <<adVars, cuVars, noVars, portal>>

IsRequestContinuation(e) == e.call = "req"

\* the requests whose continuation is in refreshSubscribers, in push order
QueuedRequests(subs) ==
    LET s == SelectSeq(subs, IsRequestContinuation)
    IN [i \in 1 .. Len(s) |-> s[i].id]

\* the order in which a successful refresh started for request r re-sends the
\* requests: forEach over refreshSubscribers (line 112, each continuation
\* calling axiosInstance at line 144), then axiosInstance for r (line 169)
ReplayOrder(r) == QueuedRequests(refreshSubscribers) \o <<r>>

\* the order in which the 401 answers of these requests arrived: the requests
\* left in the list by an earlier refresh, then r, whose 401 started the
\* refresh (line 138), then the requests queued behind it (lines 139-146)
ArrivalOrder(r, subs) ==
    LET q == SelectSeq(subs, IsRequestContinuation)
        old == {i \in 1 .. Len(q) : requests[q[i].id].behind # r}
    IN [i \in 1 .. Len(q) + 1 |->
           IF i <= Cardinality(old) THEN q[i].id
           ELSE IF i = Cardinality(old) + 1 THEN r
           ELSE q[i - 1].id]

\* (mutant) the drain re-sends the initiating request only and forgets the
\* continuations in the list
RequestsAfterRefreshDropsQueue(r, tok) ==
    [q \in Reqs |-> IF q = r THEN Send(requests[q], tok, tok) ELSE requests[q]]

\* notifySubscribersAboutTokenRefresh(token) followed by the replay of the
\* initiating request r (lines 160-169): every continuation re-sends its
\* request with the new header, the list is emptied, then r is re-sent
RequestsAfterRefresh(r, tok) ==
    [q \in Reqs |->
        IF q \in Waiting(refreshSubscribers, "req") \/ q = r
        THEN Send(requests[q], tok, tok)
        ELSE requests[q]]

CallsAfterRefresh(r, result) ==
    [q \in Reqs |->
        IF q = r THEN [refreshCall[q] EXCEPT !.st = "none", !.outcome = result]
        ELSE IF q \in Waiting(refreshSubscribers, "post")
             THEN [refreshCall[q] EXCEPT !.st = "post"]
        ELSE IF q \in Waiting(refreshSubscribers, "me")
             THEN [refreshCall[q] EXCEPT !.st = "me"]
        ELSE refreshCall[q]]

\* the try block after refreshToken() resolved with tok (lines 159-169)
RefreshResolved(r, tok) ==
    /\ localToken' = tok
    /\ requests' = RequestsAfterRefresh(r, tok)
    /\ refreshCall' = CallsAfterRefresh(r, "ok")
    /\ refreshSubscribers' = <<>>
    /\ isRefreshing' = FALSE
    /\ lastDrain' = [arrived |-> ArrivalOrder(r, refreshSubscribers),
                     replayed |-> ReplayOrder(r)]

\* the catch block (lines 170-177): the initiating request is rejected with
\* the refresh error; refreshSubscribers is not touched
RefreshRejected(r) ==
    /\ isRefreshing' = FALSE
    /\ localToken' = NoToken
    /\ requests' = [requests EXCEPT ![r].st = "rejected", ![r].err = "refreshError"]
    /\ refreshCall' = [refreshCall EXCEPT ![r].st = "none", ![r].outcome = "failed"]
    /\ UNCHANGED <<refreshSubscribers, lastDrain>>

\* the response interceptor on the answer to request r
Respond(r, status) ==
    /\ requests[r].st = "sent"
    /\ UNCHANGED <<adVars, cuVars, noVars, portal>>
    /\ lastResp' = [call |-> "req", id |-> r, status |-> status,
                    wasRefreshing |-> isRefreshing, wasRetry |-> requests[r].retry]
    /\ IF status = Ok
       THEN /\ requests' = [requests EXCEPT ![r].st = "resolved"]
            /\ UNCHANGED <<localToken, isRefreshing, refreshSubscribers, refreshCall>>
       ELSE IF ~NeedsRefresh(status, requests[r].retry)
       THEN \* line 180
            /\ requests' = [requests EXCEPT ![r].st = "rejected", ![r].err = "own",
                               ![r].rej = IF status = Unauthorized
                                          THEN requests[r].hdr ELSE @]
            /\ UNCHANGED <<localToken, isRefreshing, refreshSubscribers, refreshCall>>
       ELSE IF ShouldQueue(isRefreshing)
       THEN \* lines 141-146
            /\ requests' = [requests EXCEPT ![r].st = "queued",
                               ![r].rej = requests[r].hdr,
                               ![r].behind = CHOOSE i \in RefreshInFlight \cup {0} :
                                                 RefreshInFlight # {} => i # 0]
            /\ refreshSubscribers' = onTokenRefreshed(refreshSubscribers, "req", r)
            /\ UNCHANGED <<localToken, isRefreshing, refreshCall>>
       ELSE IF ~HasToken(localToken)
       THEN \* lines 149-156 and 170-177: "No token found"
            /\ requests' = [requests EXCEPT ![r].st = "rejected", ![r].retry = TRUE,
                               ![r].err = "refreshError", ![r].rej = requests[r].hdr]
            /\ isRefreshing' = FALSE
            /\ localToken' = NoToken
            /\ UNCHANGED <<refreshSubscribers, refreshCall>>
       ELSE \* lines 149-158: start the refresh
            /\ requests' = [requests EXCEPT ![r].st = "refreshing", ![r].retry = TRUE,
                               ![r].rej = requests[r].hdr]
            /\ isRefreshing' = TRUE
            /\ refreshCall' = [refreshCall EXCEPT
                                  ![r] = [st |-> "post", arg |-> localToken,
                                          outcome |-> "none"]]
            /\ UNCHANGED <<localToken, refreshSubscribers>>
    /\ UNCHANGED <<serverTok, lastDrain>>

\* refreshToken(token): the answer to POST /auth/refresh-token of the refresh
\* started for request r.  The call goes through axiosInstance, so its error
\* passes the response interceptor before refreshToken() sees it.
RespondRefresh(r, status) ==
    /\ refreshCall[r].st = "post"
    /\ UNCHANGED <<adVars, cuVars, noVars, portal>>
    /\ lastResp' = [call |-> "post", id |-> r, status |-> status,
                    wasRefreshing |-> isRefreshing, wasRetry |-> FALSE]
    /\ IF status = Ok
       THEN /\ serverTok' = serverTok + 1
            /\ RefreshResolved(r, serverTok + 1)
       ELSE IF NeedsRefresh(status, FALSE)
       THEN \* the interceptor queues the refresh call behind the refresh
            /\ ShouldQueue(isRefreshing)
            /\ refreshSubscribers' = onTokenRefreshed(refreshSubscribers, "post", r)
            /\ refreshCall' = [refreshCall EXCEPT ![r].st = "postQueued"]
            /\ UNCHANGED <<localToken, isRefreshing, requests, serverTok, lastDrain>>
       ELSE \* lines 225-229: fall back to getCurrentUser()
            /\ refreshCall' = [refreshCall EXCEPT ![r].st = "me"]
            /\ UNCHANGED <<localToken, isRefreshing, requests, refreshSubscribers,
                           serverTok, lastDrain>>

\* refreshToken(token): the answer to the fallback GET /auth/me
RespondFallback(r, status) ==
    /\ refreshCall[r].st = "me"
    /\ UNCHANGED <<adVars, cuVars, noVars, portal>>
    /\ lastResp' = [call |-> "me", id |-> r, status |-> status,
                    wasRefreshing |-> isRefreshing, wasRetry |-> FALSE]
    /\ UNCHANGED serverTok
    /\ IF status = Ok
       THEN \* line 231: resolve with the token that was passed in
            RefreshResolved(r, refreshCall[r].arg)
       ELSE IF NeedsRefresh(status, FALSE)
       THEN /\ ShouldQueue(isRefreshing)
            /\ refreshSubscribers' = onTokenRefreshed(refreshSubscribers, "me", r)
            /\ refreshCall' = [refreshCall EXCEPT ![r].st = "meQueued"]
            /\ UNCHANGED <<localToken, isRefreshing, requests, lastDrain>>
       ELSE \* line 234: throw the error of the refresh call
            RefreshRejected(r)

UsNext ==
    \/ \E r \in Reqs : Issue(r)
    \/ \E r \in Reqs, s \in Statuses : Respond(r, s)
    \/ \E r \in Reqs, s \in Statuses : RespondRefresh(r, s)
    \/ \E r \in Reqs, s \in Statuses : RespondFallback(r, s)

----------------------------------------------------------------------------
(* Part 2: admin AuthProvider *)

\* the call chain of the start-up effect (lines 170-190); the other chains
\* are started by the application
InitTask == 0
Tasks == InitTask .. NumTasks
NoUser == 0

\* A call chain is a stack of frames, the innermost last.  A frame is a call
\* on the network (its config) or a function waiting at an await:
\*   "X"   a request of the application made through the global axios
\*   "P"   POST auth/refresh-token made by refreshToken()        (line 152)
\*   "PL"  POST auth/logout made by logout()                     (line 218)
\*   "PG"  POST auth/login made by login()                       (line 194)
\*   "I"   response interceptor waiting for refreshToken()       (line 108)
\*   "IL"  response interceptor waiting for logout()             (line 113)
\*   "R"   refreshToken() waiting for its POST                   (line 152)
\*   "RL"  refreshToken() waiting for logout()                   (line 164)
\*   "L"   logout() waiting for its POST                         (line 218)
\*   "G"   login() waiting for its POST                          (line 194)
\*   "PM"  GET auth/me made by getCurrentUser()                  (line 132)
\*   "M"   getCurrentUser() waiting for its GET                  (line 132)
\*   "N"   init() waiting for getCurrentUser()                   (line 175)
\* h is the Authorization header of a config, n the number of times it was sent.
Frame(k, h, n) == [k |-> k, h |-> h, n |-> n]
NetFrames == {"X", "P", "PL", "PG", "PM"}

Top(stk) == stk[Len(stk)]
Pop(stk) == SubSeq(stk, 1, Len(stk) - 1)

\* counters stop at MaxCount
Count(n) == IF n < MaxCount THEN n + 1 ELSE MaxCount

\* the server never issues the token it was presented
Fresh(t) == IF t = 1 THEN 2 ELSE 1

\* request interceptor (lines 92-101)
requestInterceptor(hdr, stored) == IF stored # NoToken THEN stored ELSE hdr

\* the header "Bearer null", written when no token is stored
BearerNull == -1

\* line 110: the template `Bearer ${token}` with what storage.get returned
Bearer(stored) == IF stored = NoToken THEN BearerNull ELSE stored

\* the one error login() throws (line 210)
NoError == "none"
InvalidEmailOrPassword == "Invalid email or password"

\* login() has not been answered
NoCause == 0

\* the activations of the response interceptor pending in a call chain
Nest(stk) == Cardinality({i \in 1 .. Len(stk) : stk[i].k \in {"I", "IL"}})

RECURSIVE SumNest(_)
SumNest(ts) ==
    IF ts = {} THEN 0
    ELSE LET t == CHOOSE x \in ts : TRUE
         IN Nest(tasks[t].stk) + SumNest(ts \ {t})

\* the activations of the response interceptor pending in all call chains
TotalNest == SumNest(Tasks)

\* the storage and state one handler works on, with the call chain it runs in
Machine(t) ==
    [stk |-> tasks[t].stk, res |-> tasks[t].res, failed |-> tasks[t].failed,
     cause |-> tasks[t].cause, err |-> tasks[t].err,
     tok |-> adminToken, rtok |-> storedRefreshToken, usr |-> adminUser,
     user |-> user, auth |-> isAuthenticated, init |-> isInitialized]

\* the finally block of logout() (lines 225-229)
ClearSession(m) ==
    [m EXCEPT !.tok = NoToken, !.rtok = NoToken, !.usr = NoUser,
              !.user = NoUser, !.auth = FALSE]

\* the values a call chain and the session it works on can take
Tokens == {NoToken, 1, 2}
FrameSet == [k : {"X", "P", "PL", "PG", "I", "IL", "R", "RL", "L", "G", "PM", "M",
                  "N"},
             h : Tokens \cup {BearerNull}, n : 0 .. MaxCount]
MachineSet ==
    [stk : Seq(FrameSet), res : {"none", "resolved", "rejected"}, failed : BOOLEAN,
     cause : Statuses \cup {NoCause}, err : {NoError, InvalidEmailOrPassword},
     tok : Tokens, rtok : Tokens, usr : Tokens, user : Tokens, auth : BOOLEAN,
     init : BOOLEAN]

\* The handlers of chain m run until the chain waits for the network again or
\* has ended.  sig tells what happens at the top of the chain:
\*   "logout"  logout() is called (lines 214-221): with a token it posts the
\*             logout call and waits, without one it runs to its end
\*   "ret"     the awaited promise resolved
\*   "throw"   the awaited promise rejected
Run[m \in MachineSet, sig \in {"logout", "ret", "throw"}] ==
    IF sig = "logout"
    THEN IF m.tok # NoToken
         THEN [m EXCEPT !.stk = m.stk \o <<Frame("L", NoToken, 0),
                                           Frame("PL", requestInterceptor(m.tok, m.tok), 1)>>]
         ELSE Run[ClearSession(m), "ret"]
    ELSE IF m.stk = <<>>
    THEN [m EXCEPT !.res = IF sig = "ret" THEN "resolved" ELSE "rejected"]
    ELSE LET top == Top(m.stk)
             rest == Pop(m.stk)
         IN CASE top.k = "R" ->
                   IF sig = "ret"
                   THEN \* lines 156-159
                        Run[[m EXCEPT !.stk = rest, !.tok = Fresh(m.tok),
                                      !.rtok = Fresh(m.rtok)], "ret"]
                   ELSE \* lines 162-164
                        Run[[m EXCEPT !.stk = Append(rest, Frame("RL", NoToken, 0))],
                            "logout"]
              [] top.k = "RL" ->
                   \* line 165
                   Run[[m EXCEPT !.stk = rest], "throw"]
              [] top.k = "I" ->
                   IF sig = "ret"
                   THEN \* lines 109-111: send the failed config again
                        LET c == Top(rest)
                        IN [m EXCEPT !.stk = Append(Pop(rest),
                                 Frame(c.k, requestInterceptor(Bearer(m.tok), m.tok),
                                       Count(c.n)))]
                   ELSE \* lines 112-113
                        Run[[m EXCEPT !.stk = Append(rest, Frame("IL", NoToken, 0))],
                            "logout"]
              [] top.k = "IL" ->
                   \* line 114: the failed config rejects with the refresh error
                   Run[[m EXCEPT !.stk = Pop(rest)], "throw"]
              [] top.k = "L" ->
                   \* lines 222-230: catch, then finally
                   Run[ClearSession([m EXCEPT !.stk = rest]), "ret"]
              [] top.k = "G" ->
                   IF sig = "ret"
                   THEN \* lines 199-204
                        Run[[m EXCEPT !.stk = rest, !.tok = Fresh(m.tok),
                                      !.rtok = Fresh(m.tok), !.usr = 1, !.user = 1,
                                      !.auth = TRUE], "ret"]
                   ELSE \* lines 208-210
                        Run[[m EXCEPT !.stk = rest, !.err = InvalidEmailOrPassword],
                            "throw"]
              [] top.k = "M" ->
                   IF sig = "ret"
                   THEN \* lines 136-140
                        Run[[m EXCEPT !.stk = rest, !.usr = 1, !.user = 1,
                                      !.auth = TRUE], "ret"]
                   ELSE \* lines 141-143
                        Run[[m EXCEPT !.stk = rest], "throw"]
              [] top.k = "N" ->
                   IF sig = "ret"
                   THEN \* lines 184-186
                        Run[[m EXCEPT !.stk = rest, !.init = TRUE], "ret"]
                   ELSE \* lines 177-186: catch, then finally
                        Run[[ClearSession(m) EXCEPT !.stk = rest, !.init = TRUE],
                            "ret"]
              [] OTHER -> m

\* logout() called in chain m
logout(m) == Run[m, "logout"]

\* the await at the top of chain m settles
Deliver(m, sig) == Run[m, sig]

\* getCurrentUser() up to its await (lines 127-134)
getCurrentUser(m) ==
    IF m.tok = NoToken
    THEN \* "No token found": lines 130 and 141-143
         Deliver(m, "throw")
    ELSE [m EXCEPT !.stk = m.stk \o <<Frame("M", NoToken, 0),
                                      Frame("PM", requestInterceptor(m.tok, m.tok), 1)>>]

\* refreshToken() up to its await (lines 147-154)
refreshToken(m) ==
    IF m.rtok = NoToken
    THEN \* "No refresh token found": lines 162-164
         logout([m EXCEPT !.stk = Append(m.stk, Frame("RL", NoToken, 0)),
                              !.failed = TRUE])
    ELSE [m EXCEPT !.stk = m.stk \o <<Frame("R", NoToken, 0),
                                      Frame("P", requestInterceptor(NoToken, m.tok), 1)>>]

\* the response interceptor on an authentication failure (lines 106-108); the
\* header of the failed config is overwritten before it is used again (line
\* 110), so it is not kept
responseInterceptor(m) ==
    LET c == Top(m.stk)
    IN refreshToken([m EXCEPT !.stk = Pop(m.stk) \o <<Frame(c.k, NoToken, c.n),
                                                     Frame("I", NoToken, 0)>>])

\* the answer of the server to the call at the top of the chain; an answer
\* without a token to the refresh call (line 161) or to the login call (line
\* 206) counts as a failure of it
AfterAnswer(m, status) ==
    LET m1 == IF Top(m.stk).k = "P" /\ status # Ok
              THEN [m EXCEPT !.failed = TRUE]
              ELSE IF Top(m.stk).k = "PG"
              THEN [m EXCEPT !.cause = status]
              ELSE m
    IN IF status = Unauthorized THEN responseInterceptor(m1)
       ELSE IF status = Ok THEN Deliver([m1 EXCEPT !.stk = Pop(m.stk)], "ret")
       ELSE Deliver([m1 EXCEPT !.stk = Pop(m.stk)], "throw")

\* a chain or a handler leaves the storage and state of m behind
Commit(t, m, kind) ==
    /\ adminToken' = m.tok
    /\ storedRefreshToken' = m.rtok
    /\ adminUser' = m.usr
    /\ user' = m.user
    /\ isAuthenticated' = m.auth
    /\ isInitialized' = m.init
    /\ tasks' = [tasks EXCEPT ![t] =
                    [kind |-> kind, stk |-> m.stk, res |-> m.res, failed |-> m.failed,
                     cause |-> m.cause, err |-> m.err,
                     cleared |-> IF m.res # "none" /\ tasks[t].res = "none"
                                 THEN /\ m.tok = NoToken /\ m.rtok = NoToken
                                      /\ m.usr = NoUser /\ m.user = NoUser /\ ~m.auth
                                 ELSE tasks[t].cleared]]

IdleTask == [kind |-> "idle", stk |-> <<>>, res |-> "none", failed |-> FALSE,
             cause |-> NoCause, err |-> NoError, cleared |-> FALSE]

\* The application is rendered once isInitialized is true (lines 233-235).
\* It makes a request through the global axios
StartRequest(t) ==
    /\ isInitialized
    /\ tasks[t].kind = "idle"
    /\ Commit(t, [Machine(t) EXCEPT
                     !.stk = <<Frame("X", requestInterceptor(NoToken, adminToken), 1)>>],
              "request")
    /\ UNCHANGED <<usVars, cuVars, noVars, portal>>

\* the user logs out: logout() is called (Layout.handleLogout)
StartLogout(t) ==
    /\ isInitialized
    /\ tasks[t].kind = "idle"
    /\ \E m \in {logout(Machine(t))} : Commit(t, m, "logout")
    /\ UNCHANGED <<usVars, cuVars, noVars, portal>>

\* login(email, password) is called: it posts the login call (line 194)
StartLogin(t) ==
    /\ isInitialized
    /\ tasks[t].kind = "idle"
    /\ Commit(t, [Machine(t) EXCEPT
                     !.stk = <<Frame("G", NoToken, 0),
                               Frame("PG", requestInterceptor(NoToken, adminToken), 1)>>],
              "login")
    /\ UNCHANGED <<usVars, cuVars, noVars, portal>>

\* the application calls getCurrentUser() of the context (line 246)
StartGetCurrentUser(t) ==
    /\ isInitialized
    /\ tasks[t].kind = "idle"
    /\ \E m \in {getCurrentUser(Machine(t))} : Commit(t, m, "me")
    /\ UNCHANGED <<usVars, cuVars, noVars, portal>>

\* the server answers the call at the top of chain t
Answer(t, status) ==
    /\ tasks[t].kind # "idle"
    /\ tasks[t].res = "none"
    /\ tasks[t].stk # <<>>
    /\ Top(tasks[t].stk).k \in NetFrames
    /\ status = Unauthorized => TotalNest < MaxNest
    /\ \E m \in {AfterAnswer(Machine(t), status)} : Commit(t, m, tasks[t].kind)
    /\ UNCHANGED <<usVars, cuVars, noVars, portal>>

AdNext ==
    \/ \E t \in Tasks : StartRequest(t)
    \/ \E t \in Tasks : StartLogout(t)
    \/ \E t \in Tasks : StartLogin(t)
    \/ \E t \in Tasks : StartGetCurrentUser(t)
    \/ \E t \in Tasks, s \in Statuses : Answer(t, s)

----------------------------------------------------------------------------
(* Part 3: customer AuthProvider *)

Calls == 1 .. NumCalls

\* the values of token and of localStorage "token"
Null == [kind |-> "null", exp |-> 0]
\* the token field of a response that has none
Undefined == [kind |-> "undefined", exp |-> 0]
\* the string "undefined"
UndefinedString == [kind |-> "undefinedString", exp |-> 0]
\* a token whose second part is not base64 of JSON
Garbage == [kind |-> "garbage", exp |-> 0]
\* a JWT whose payload has no exp claim
NoExp == [kind |-> "noexp", exp |-> 0]
\* a JWT whose payload has the exp claim e, in seconds
Jwt(e) == [kind |-> "jwt", exp |-> e]

\* the tokens the server can issue
ServerTokens == {Jwt(e) : e \in 1 .. MaxExp} \cup {NoExp, Garbage}

\* response.data.token of a 200 answer
Bodies == ServerTokens \cup {Undefined}

\* response.data.user of a 200 answer
UserOf(body) == IF body = Undefined THEN NoUser ELSE 1

\* !!token
Truthy(tok) == tok.kind \notin {"null", "undefined"}

\* localStorage.setItem("token", v): the string of v is stored
setItem(v) == IF v = Undefined THEN UndefinedString ELSE v

\* the values of sessionTimeRemaining
NullTime == [isNull |-> TRUE, secs |-> 0]
Seconds(n) == [isNull |-> FALSE, secs |-> n]

MsPerStep == 500

\* JSON.parse(atob(token.split(".")[1])) does not throw (line 79)
Decodes(tok) == tok.kind \in {"jwt", "noexp"}

\* checkTokenExpiration (lines 77-86); without exp, payload.exp * 1000 is NaN
\* and NaN > 0 is false
checkTokenExpiration(tok, nowMs) ==
    IF ~Decodes(tok) THEN NullTime
    ELSE IF tok.kind = "noexp" THEN Seconds(0)
    ELSE LET remaining == (tok.exp * 1000 - nowMs) \div 1000
         IN Seconds(IF remaining > 0 THEN remaining ELSE 0)

\* the effect of lines 71-92, which runs when token has changed
SessionTimerEffect(tok, nowMs) ==
    IF ~Truthy(tok) THEN NullTime ELSE checkTokenExpiration(tok, nowMs)

\* the effect of lines 50-68, which runs when token or user has changed: the
\* number of GET /auth/me calls in flight afterwards
LoadUserEffect(tok, usr, loads) ==
    IF (tok # cToken \/ usr # cUser) /\ Truthy(tok) /\ usr = NoUser
    THEN loads + 1 ELSE loads

\* a handler has set token, user and the persisted token; React renders and
\* runs the effects
Render(tok, usr, stored, loads) ==
    /\ cToken' = tok
    /\ cUser' = usr
    /\ cStored' = stored
    /\ sessionTimeRemaining' =
          IF tok # cToken THEN SessionTimerEffect(tok, now * MsPerStep)
          ELSE sessionTimeRemaining
    /\ cLoads' = LoadUserEffect(tok, usr, loads)

IdleCall == [kind |-> "idle", st |-> "idle", result |-> "none",
             notified |-> FALSE]

\* (mutant) logout() without the removeItem of line 157
LoggedOutInStateOnly == [token |-> Null, user |-> NoUser, stored |-> cStored]

\* what logout() leaves of the session (lines 155-157)
LoggedOut == [token |-> Null, user |-> NoUser, stored |-> Null]

\* login(email, password) up to its await (lines 94-102)
CustomerLogin(c) ==
    /\ cCalls[c].st = "idle"
    /\ cCalls' = [cCalls EXCEPT ![c] = [kind |-> "login", st |-> "sent",
                                        result |-> "none",
                                        notified |-> FALSE]]
    /\ UNCHANGED <<cToken, cStored, cUser, sessionTimeRemaining, cLoads, now>>
    /\ UNCHANGED <<usVars, adVars, noVars, portal>>

\* the answer to POST /auth/login (lines 103-116)
CustomerLoginAnswer(c, status, body) ==
    /\ cCalls[c].kind = "login" /\ cCalls[c].st = "sent"
    /\ IF status = Ok
       THEN /\ Render(body, UserOf(body), setItem(body), cLoads)
            /\ cCalls' = [cCalls EXCEPT ![c].st = "done", ![c].result = "true"]
       ELSE /\ cCalls' = [cCalls EXCEPT ![c].st = "done", ![c].result = "false"]
            /\ UNCHANGED <<cToken, cStored, cUser, sessionTimeRemaining, cLoads>>
    /\ UNCHANGED now
    /\ UNCHANGED <<usVars, adVars, noVars, portal>>

\* refreshToken() up to its await (lines 187-191)
CustomerRefresh(c) ==
    /\ cCalls[c].st = "idle"
    /\ cCalls' = [cCalls EXCEPT ![c] = [kind |-> "refresh", st |-> "sent",
                                        result |-> "none",
                                        notified |-> FALSE]]
    /\ UNCHANGED <<cToken, cStored, cUser, sessionTimeRemaining, cLoads, now>>
    /\ UNCHANGED <<usVars, adVars, noVars, portal>>

\* the answer to POST /auth/refresh-token (lines 193-202); on failure
\* refreshToken() calls logout(), which dispatches the "user-logout" event
\* (line 158): notified
CustomerRefreshAnswer(c, status, body) ==
    /\ cCalls[c].kind = "refresh" /\ cCalls[c].st = "sent"
    /\ IF status = Ok
       THEN /\ Render(body, cUser, setItem(body), cLoads)
            /\ cCalls' = [cCalls EXCEPT ![c].st = "done", ![c].result = "true"]
       ELSE /\ Render(LoggedOut.token, LoggedOut.user, LoggedOut.stored, cLoads)
            /\ cCalls' = [cCalls EXCEPT ![c].st = "done", ![c].result = "false",
                                        ![c].notified = TRUE]
    /\ UNCHANGED now
    /\ UNCHANGED <<usVars, adVars, noVars, portal>>

\* logout() (lines 154-159)
CustomerLogout ==
    /\ Truthy(cToken) \/ cUser # NoUser \/ cStored # Null
    /\ Render(LoggedOut.token, LoggedOut.user, LoggedOut.stored, cLoads)
    /\ UNCHANGED <<cCalls, now>>
    /\ UNCHANGED <<usVars, adVars, noVars, portal>>

\* the answer to the GET /auth/me of loadUser (lines 59-63)
CustomerLoadAnswer(status) ==
    /\ cLoads > 0
    /\ IF status = Ok
       THEN Render(cToken, 1, cStored, cLoads - 1)
       ELSE Render(Null, cUser, Null, cLoads - 1)
    /\ UNCHANGED <<cCalls, now>>
    /\ UNCHANGED <<usVars, adVars, noVars, portal>>

\* (mutant) the interval callback ends the session when the time is up
TickSessionExpires(tok, remaining) ==
    IF remaining = Seconds(0) THEN Null ELSE tok

\* what the interval callback leaves of the session: it calls
\* setSessionTimeRemaining only (lines 77-86)
TickSession(tok, remaining) == tok

\* the interval of line 89 fires; it exists while token is set
CustomerTick ==
    /\ Truthy(cToken)
    /\ sessionTimeRemaining' = checkTokenExpiration(cToken, now * MsPerStep)
    /\ cToken' = TickSession(cToken, sessionTimeRemaining')
    /\ cStored' = TickSession(cStored, sessionTimeRemaining')
    /\ UNCHANGED <<cUser, cCalls, cLoads, now>>
    /\ UNCHANGED <<usVars, adVars, noVars, portal>>

\* time passes
CustomerTimePasses ==
    /\ now < MaxNow
    /\ now' = now + 1
    /\ UNCHANGED <<cToken, cStored, cUser, sessionTimeRemaining, cCalls, cLoads>>
    /\ UNCHANGED <<usVars, adVars, noVars, portal>>

CuNext ==
    \/ \E c \in Calls : CustomerLogin(c)
    \/ \E c \in Calls, s \in Statuses, b \in Bodies : CustomerLoginAnswer(c, s, b)
    \/ \E c \in Calls : CustomerRefresh(c)
    \/ \E c \in Calls, s \in Statuses, b \in Bodies : CustomerRefreshAnswer(c, s, b)
    \/ CustomerLogout
    \/ \E s \in Statuses : CustomerLoadAnswer(s)
    \/ CustomerTick
    \/ CustomerTimePasses

\* the tab runs one portal
PortalsNext ==
    \/ portal = "restaurant" /\ UsNext
    \/ portal = "admin" /\ AdNext
    \/ portal = "customer" /\ CuNext

----------------------------------------------------------------------------
(* Part 4: NotificationProvider of the admin portal *)

NoteIds == 1 .. MaxNotes

\* the lists of unread notifications the server can return: no notification
\* twice
ServerLists ==
    {l \in UNION {[1 .. n -> NoteIds] : n \in 0 .. MaxNotes} :
        \A i, j \in 1 .. Len(l) : l[i] = l[j] => i = j}

Unread(id) == [id |-> id, read |-> FALSE]

\* the _id of each notification of a list, in list order
Ids(ns) == [i \in 1 .. Len(ns) |-> ns[i].id]

\* (mutant) the updater of markAllAsRead() leaves the list as it is
markNoneRead(ns) == ns

\* the updater of markAllAsRead() (lines 381-393): every notification of the
\* current list is marked read
markEveryRead(ns) == [i \in 1 .. Len(ns) |-> [ns[i] EXCEPT !.read = TRUE]]

\* the updater of markAsRead(id) (lines 334-351)
markOneRead(ns, id) ==
    [i \in 1 .. Len(ns) |-> IF ns[i].id = id THEN [ns[i] EXCEPT !.read = TRUE]
                            ELSE ns[i]]

\* markAllAsRead() has not been called.  list holds the _ids of the
\* notifications listed when it was called, posted the mark-read calls it has
\* issued, oks the number of them that have succeeded
NoMarkAll == [st |-> "idle", list |-> <<>>, posted |-> <<>>, oks |-> 0,
              skipped |-> FALSE, failed |-> FALSE]

\* the answer to GET .../unread/count of fetchNotifications (lines 297-304)
FetchedCount(n) ==
    /\ adminToken # NoToken /\ adminUser # NoUser
    /\ unreadCount' = n
    /\ UNCHANGED <<notifications, markAll>>
    /\ UNCHANGED <<usVars, adVars, cuVars, portal>>

\* the answer to GET .../unread of fetchNotifications (lines 307-314)
FetchedList(l) ==
    /\ adminToken # NoToken /\ adminUser # NoUser
    /\ notifications' = [i \in 1 .. Len(l) |-> Unread(l[i])]
    /\ UNCHANGED <<unreadCount, markAll>>
    /\ UNCHANGED <<usVars, adVars, cuVars, portal>>

\* markAsRead(id) after its POST has succeeded (lines 334-355)
MarkedAsRead(id) ==
    /\ adminToken # NoToken
    /\ \E i \in 1 .. Len(notifications) :
          notifications[i].id = id /\ ~notifications[i].read
    /\ notifications' = markOneRead(notifications, id)
    /\ unreadCount' = (IF unreadCount > 0 THEN unreadCount - 1 ELSE 0)
    /\ UNCHANGED markAll
    /\ UNCHANGED <<usVars, adVars, cuVars, portal>>

\* markAllAsRead() up to its first await (lines 360-373); without a token or
\* without the _id of the stored user it returns (lines 363 and 369); with an
\* empty list the loop is skipped and the updates of lines 381-396 run
StartMarkAll ==
    /\ markAll.st # "posting"
    /\ IF adminToken = NoToken \/ adminUser = NoUser
       THEN /\ markAll' = [NoMarkAll EXCEPT !.st = "done", !.skipped = TRUE,
                                            !.list = Ids(notifications)]
            /\ UNCHANGED <<notifications, unreadCount>>
       ELSE IF notifications = <<>>
       THEN /\ markAll' = [NoMarkAll EXCEPT !.st = "done"]
            /\ notifications' = markEveryRead(notifications)
            /\ unreadCount' = 0
       ELSE /\ markAll' = [NoMarkAll EXCEPT !.st = "posting",
                                            !.list = Ids(notifications),
                                            !.posted = <<notifications[1].id>>]
            /\ UNCHANGED <<notifications, unreadCount>>
    /\ UNCHANGED <<usVars, adVars, cuVars, portal>>

\* the promise of the mark-read call in flight settles (line 373): the loop
\* posts the next call, or ends with the updates of lines 381-396, or the
\* catch block of line 397 ends the call
MarkSettles(ok) ==
    /\ markAll.st = "posting"
    /\ IF ~ok
       THEN /\ markAll' = [markAll EXCEPT !.st = "done", !.failed = TRUE]
            /\ UNCHANGED <<notifications, unreadCount>>
       ELSE IF Len(markAll.posted) < Len(markAll.list)
       THEN /\ markAll' = [markAll EXCEPT
                              !.oks = markAll.oks + 1,
                              !.posted = Append(markAll.posted,
                                                markAll.list[Len(markAll.posted) + 1])]
            /\ UNCHANGED <<notifications, unreadCount>>
       ELSE /\ markAll' = [markAll EXCEPT !.st = "done", !.oks = markAll.oks + 1]
            /\ notifications' = markEveryRead(notifications)
            /\ unreadCount' = 0
    /\ UNCHANGED <<usVars, adVars, cuVars, portal>>

\* the session ends: the finally block of logout() of the AuthProvider
\* (part_000, lines 225-229) empties sessionStorage
SessionEnds ==
    /\ adminToken # NoToken
    /\ adminToken' = NoToken /\ storedRefreshToken' = NoToken
    /\ adminUser' = NoUser /\ user' = NoUser /\ isAuthenticated' = FALSE
    /\ UNCHANGED <<isInitialized, tasks>>
    /\ UNCHANGED <<usVars, cuVars, noVars, portal>>

NoNext ==
    \/ \E n \in 0 .. MaxNotes : FetchedCount(n)
    \/ \E l \in ServerLists : FetchedList(l)
    \/ \E id \in NoteIds : MarkedAsRead(id)
    \/ StartMarkAll
    \/ \E ok \in BOOLEAN : MarkSettles(ok)
    \/ SessionEnds

----------------------------------------------------------------------------
(* Specifications *)

\* the restaurant portal with a token in localStorage or without one; the
\* admin portal is not running
InitUserService ==
    /\ notifications = <<>> /\ unreadCount = 0 /\ markAll = NoMarkAll
    /\ localToken \in {NoToken, 1}
    /\ isRefreshing = FALSE
    /\ refreshSubscribers = <<>>
    /\ requests = [r \in Reqs |-> NewRequest]
    /\ refreshCall = [r \in Reqs |-> NoRefresh]
    /\ serverTok = 1
    /\ lastResp = NoResp
    /\ lastDrain = NoDrain
    /\ adminToken = NoToken /\ storedRefreshToken = NoToken /\ adminUser = NoUser
    /\ user = NoUser /\ isAuthenticated = FALSE /\ isInitialized = FALSE
    /\ tasks = [t \in Tasks |-> IdleTask]
    /\ cToken = Null /\ cStored = Null /\ cUser = NoUser
    /\ sessionTimeRemaining = NullTime
    /\ cCalls = [c \in Calls |-> IdleCall]
    /\ cLoads = 0 /\ now = 0
    /\ portal = "restaurant"

\* the admin portal with a session in sessionStorage or without one (lines
\* 83-88: user and isAuthenticated start from storage); the start-up effect
\* (lines 170-190) has run up to its await: with a token getCurrentUser() has
\* sent GET auth/me, without one init() has set isInitialized; the restaurant
\* portal is not running
InitAdmin ==
    /\ notifications = <<>> /\ unreadCount = 0 /\ markAll = NoMarkAll
    /\ adminToken \in {NoToken, 1}
    /\ storedRefreshToken = adminToken
    /\ adminUser = adminToken
    /\ user = adminUser
    /\ isAuthenticated = (adminToken # NoToken)
    /\ isInitialized = (adminToken = NoToken)
    /\ tasks = [t \in Tasks |->
                  IF t = InitTask
                  THEN IF adminToken = NoToken
                       THEN [IdleTask EXCEPT !.kind = "init", !.res = "resolved"]
                       ELSE [IdleTask EXCEPT
                                !.kind = "init",
                                !.stk = <<Frame("N", NoToken, 0), Frame("M", NoToken, 0),
                                          Frame("PM", adminToken, 1)>>]
                  ELSE IdleTask]
    /\ localToken = NoToken
    /\ isRefreshing = FALSE
    /\ refreshSubscribers = <<>>
    /\ requests = [r \in Reqs |-> NewRequest]
    /\ refreshCall = [r \in Reqs |-> NoRefresh]
    /\ serverTok = 1
    /\ lastResp = NoResp
    /\ lastDrain = NoDrain
    /\ cToken = Null /\ cStored = Null /\ cUser = NoUser
    /\ sessionTimeRemaining = NullTime
    /\ cCalls = [c \in Calls |-> IdleCall]
    /\ cLoads = 0 /\ now = 0
    /\ portal = "admin"

\* the customer portal with a token in localStorage or without one (lines
\* 39-47); with a token the effects of the first render start loadUser and
\* the session timer; the other portals are not running
InitCustomer ==
    /\ notifications = <<>> /\ unreadCount = 0 /\ markAll = NoMarkAll
    /\ cStored \in {Null, Jwt(1)}
    /\ cToken = cStored
    /\ cUser = NoUser
    /\ sessionTimeRemaining = SessionTimerEffect(cStored, 0)
    /\ cCalls = [c \in Calls |-> IdleCall]
    /\ cLoads = (IF Truthy(cStored) THEN 1 ELSE 0)
    /\ now = 0
    /\ portal = "customer"
    /\ localToken = NoToken
    /\ isRefreshing = FALSE
    /\ refreshSubscribers = <<>>
    /\ requests = [r \in Reqs |-> NewRequest]
    /\ refreshCall = [r \in Reqs |-> NoRefresh]
    /\ serverTok = 1
    /\ lastResp = NoResp
    /\ lastDrain = NoDrain
    /\ adminToken = NoToken /\ storedRefreshToken = NoToken /\ adminUser = NoUser
    /\ user = NoUser /\ isAuthenticated = FALSE /\ isInitialized = FALSE
    /\ tasks = [t \in Tasks |-> IdleTask]

\* a tab with one of the three portals
InitPortals ==
    /\ notifications = <<>> /\ unreadCount = 0 /\ markAll = NoMarkAll
    /\ portal \in {"restaurant", "admin", "customer"}
    /\ localToken \in (IF portal = "restaurant" THEN {NoToken, 1} ELSE {NoToken})
    /\ isRefreshing = FALSE
    /\ refreshSubscribers = <<>>
    /\ requests = [r \in Reqs |-> NewRequest]
    /\ refreshCall = [r \in Reqs |-> NoRefresh]
    /\ serverTok = 1
    /\ lastResp = NoResp
    /\ lastDrain = NoDrain
    /\ adminToken \in (IF portal = "admin" THEN {NoToken, 1} ELSE {NoToken})
    /\ storedRefreshToken = adminToken
    /\ adminUser = adminToken
    /\ user = adminUser
    /\ isAuthenticated = (adminToken # NoToken)
    /\ isInitialized = (portal = "admin" /\ adminToken = NoToken)
    /\ tasks = [t \in Tasks |->
                  IF portal = "admin" /\ t = InitTask
                  THEN IF adminToken = NoToken
                       THEN [IdleTask EXCEPT !.kind = "init", !.res = "resolved"]
                       ELSE [IdleTask EXCEPT
                                !.kind = "init",
                                !.stk = <<Frame("N", NoToken, 0), Frame("M", NoToken, 0),
                                          Frame("PM", adminToken, 1)>>]
                  ELSE IdleTask]
    /\ cStored \in (IF portal = "customer" THEN {Null, Jwt(1)} ELSE {Null})
    /\ cToken = cStored
    /\ cUser = NoUser
    /\ sessionTimeRemaining = SessionTimerEffect(cStored, 0)
    /\ cCalls = [c \in Calls |-> IdleCall]
    /\ cLoads = (IF Truthy(cStored) THEN 1 ELSE 0)
    /\ now = 0

\* the admin portal after a start-up that has restored the session; the
\* NotificationProvider starts with an empty list (lines 280-282)
InitNotifications ==
    /\ notifications = <<>> /\ unreadCount = 0 /\ markAll = NoMarkAll
    /\ adminToken = 1 /\ storedRefreshToken = 1 /\ adminUser = 1
    /\ user = 1 /\ isAuthenticated = TRUE /\ isInitialized = TRUE
    /\ tasks = [t \in Tasks |->
                  IF t = InitTask
                  THEN [IdleTask EXCEPT !.kind = "init", !.res = "resolved"]
                  ELSE IdleTask]
    /\ localToken = NoToken
    /\ isRefreshing = FALSE
    /\ refreshSubscribers = <<>>
    /\ requests = [r \in Reqs |-> NewRequest]
    /\ refreshCall = [r \in Reqs |-> NoRefresh]
    /\ serverTok = 1
    /\ lastResp = NoResp
    /\ lastDrain = NoDrain
    /\ cToken = Null /\ cStored = Null /\ cUser = NoUser
    /\ sessionTimeRemaining = NullTime
    /\ cCalls = [c \in Calls |-> IdleCall]
    /\ cLoads = 0 /\ now = 0
    /\ portal = "admin"

SpecUserService == InitUserService /\ [][UsNext]_vars

SpecAdmin == InitAdmin /\ [][AdNext]_vars

SpecCustomer == InitCustomer /\ [][CuNext]_vars

SpecPortals == InitPortals /\ [][PortalsNext]_vars

SpecNotifications == InitNotifications /\ [][NoNext]_vars

\* every call on the network is answered, by the server or by the transport
\* giving up
FairSpecAdmin ==
    SpecAdmin /\ \A t \in Tasks : WF_vars(\E s \in Statuses : Answer(t, s))

----------------------------------------------------------------------------
(* Claims about UserService *)

\* no request and no refresh call is waiting for an answer of the server
NetworkIdle ==
    /\ \A r \in Reqs : requests[r].st # "sent"
    /\ RefreshOnNetwork = {}

Settled(r) == requests[r].st \in {"resolved", "rejected"}

\* the continuation of the call answered last is in refreshSubscribers
LastRegistered ==
    \/ lastResp.call = "req" /\ requests[lastResp.id].st = "queued"
                             /\ lastResp.id \in Waiting(refreshSubscribers, "req")
    \/ lastResp.call = "post" /\ refreshCall[lastResp.id].st = "postQueued"
                              /\ lastResp.id \in Waiting(refreshSubscribers, "post")
    \/ lastResp.call = "me" /\ refreshCall[lastResp.id].st = "meQueued"
                            /\ lastResp.id \in Waiting(refreshSubscribers, "me")

\* C1 (as stated): at most one refreshToken() call is in flight, and every
\* 401 that arrives while isRefreshing is true registers a continuation in
\* refreshSubscribers.
C1_Every401WhileRefreshingRegisters ==
    /\ Cardinality(RefreshInFlight) <= 1
    /\ (lastResp.status = Unauthorized /\ lastResp.wasRefreshing) => LastRegistered

\* C1 (amended): at most one refreshToken() call is in flight at any time; a
\* 401 that arrives while isRefreshing is true registers a continuation when
\* its request is not marked _retry, and is rejected to the caller with its
\* own error when the request is marked _retry; in neither case does it start
\* a second refreshToken() call.
C1_AtMostOneRefreshInFlight ==
    /\ Cardinality(RefreshInFlight) <= 1
    /\ isRefreshing <=> RefreshInFlight # {}
    /\ (lastResp.status = Unauthorized /\ lastResp.wasRefreshing) =>
          IF lastResp.wasRetry
          THEN /\ requests[lastResp.id].st = "rejected"
               /\ requests[lastResp.id].err = "own"
          ELSE LastRegistered

\* C1 witness: a request got 401 while a refresh was in flight and waits in
\* refreshSubscribers behind the one refresh call
C1_Witness ==
    /\ lastResp.call = "req" /\ lastResp.status = Unauthorized
    /\ lastResp.wasRefreshing /\ ~lastResp.wasRetry
    /\ requests[lastResp.id].st = "queued"
    /\ Cardinality(RefreshInFlight) = 1
    /\ lastResp.id \notin RefreshInFlight

\* C2: for N requests failing with 401 one refresh call is made, and once
\* that call has completed (success or failure) and the server has answered
\* everything that was sent, every request queued behind it has resolved.
C2_AllResolveAfterRefresh ==
    /\ Cardinality(RefreshInFlight) <= 1
    /\ \A r \in Reqs :
          LET i == requests[r].behind IN
          (i # 0 /\ refreshCall[i].outcome # "none" /\ NetworkIdle) => Settled(r)

\* C3: after a failed refresh the initiating request is rejected with the
\* refresh error, the persisted token is removed and every request queued
\* behind that refresh is rejected with the same error.
C3_FailedRefreshRejectsQueue ==
    \A i \in Reqs :
       refreshCall[i].outcome = "failed" =>
          /\ requests[i].st = "rejected" /\ requests[i].err = "refreshError"
          /\ localToken = NoToken
          /\ \A r \in Reqs :
                requests[r].behind = i =>
                   requests[r].st = "rejected" /\ requests[r].err = "refreshError"

\* C4: a refresh never stays in flight once the server has answered: while
\* isRefreshing is true the refresh call or its fallback call is still
\* waiting for the server, and no continuation of the refresh calls themselves
\* is left pending.
C4_RefreshNeverStuck ==
    /\ isRefreshing => RefreshOnNetwork # {}
    /\ \A r \in Reqs : refreshCall[r].st \notin {"postQueued", "meQueued"}

\* C5: every request is sent at most twice, the original send and one
\* automatic replay.
C5_AtMostOneReplay ==
    \A r \in Reqs : requests[r].sends <= 2

\* C6: a replayed request never carries the token with which it was rejected
\* with 401.
C6_ReplayCarriesNewToken ==
    \A r \in Reqs :
       (requests[r].st = "sent" /\ requests[r].sends > 1) =>
          requests[r].hdr # requests[r].rej

\* C11: the queue is transient: whenever no refresh is in flight
\* (isRefreshing is false) refreshSubscribers is empty.
C11_QueueEmptyWhenIdle ==
    ~isRefreshing => refreshSubscribers = <<>>

\* the entries of refreshSubscribers that hold the continuation of call id
Entries(subs, call, id) ==
    {i \in 1 .. Len(subs) : subs[i] = [call |-> call, id |-> id]}

\* every pending continuation is in refreshSubscribers once, and
\* refreshSubscribers holds pending continuations only
NoContinuationLost ==
    \A r \in Reqs :
       /\ Cardinality(Entries(refreshSubscribers, "req", r)) =
             (IF requests[r].st = "queued" THEN 1 ELSE 0)
       /\ Cardinality(Entries(refreshSubscribers, "post", r)) =
             (IF refreshCall[r].st = "postQueued" THEN 1 ELSE 0)
       /\ Cardinality(Entries(refreshSubscribers, "me", r)) =
             (IF refreshCall[r].st = "meQueued" THEN 1 ELSE 0)

\* the step empties refreshSubscribers: every continuation that was in it
\* has run once (its call is sent once more) and none is pending afterwards
DrainIsSnapshot ==
    (refreshSubscribers # <<>> /\ refreshSubscribers' = <<>>) =>
       /\ \A q \in Waiting(refreshSubscribers, "req") :
             /\ requests'[q].st = "sent"
             /\ requests'[q].sends = requests[q].sends + 1
       /\ \A q \in Waiting(refreshSubscribers, "post") : refreshCall'[q].st = "post"
       /\ \A q \in Waiting(refreshSubscribers, "me") : refreshCall'[q].st = "me"
       /\ \A q \in Reqs :
             /\ requests'[q].st # "queued"
             /\ refreshCall'[q].st \notin {"postQueued", "meQueued"}

\* C20: draining takes a snapshot: the success of a refresh invokes every
\* continuation registered in refreshSubscribers exactly once, and the reset
\* of refreshSubscribers to the empty list drops no continuation.
C20_DrainInvokesEachOnce ==
    [](NoContinuationLost) /\ [][DrainIsSnapshot]_vars

\* C20 witness: a request queued behind a refresh has been re-sent by the
\* success of that refresh, which emptied the list
C20_Witness ==
    /\ lastResp.call = "post" /\ lastResp.status = Ok
    /\ refreshSubscribers = <<>>
    /\ \E q \in Reqs :
          /\ requests[q].behind = lastResp.id
          /\ requests[q].st = "sent"
          /\ requests[q].sends = 2

\* C12: a successful refresh re-sends the requests in the order in which
\* their 401 answers arrived, the initiating request included.
C12_ReplayInArrivalOrder ==
    lastDrain.replayed = lastDrain.arrived

\* refreshToken(token) of the refresh started for r has settled in this step
RefreshSettles(r) == refreshCall[r].st # "none" /\ refreshCall'[r].st = "none"

\* C22: refreshToken(token) resolves with the server's token, and without a
\* fallback call, when the refresh call succeeds; it makes the fallback call
\* only after the refresh call has failed and resolves with the input token
\* when the fallback succeeds; it rejects exactly when the refresh call and
\* the fallback call have both failed.
C22_RefreshTokenOutcome ==
    [][\A r \in Reqs :
          /\ RespondRefresh(r, Ok) =>
                /\ RefreshSettles(r) /\ refreshCall'[r].outcome = "ok"
                /\ localToken' = serverTok'
          /\ (refreshCall[r].st = "post" /\ refreshCall'[r].st = "me") =>
                \E st \in Statuses \ {Ok} : RespondRefresh(r, st)
          /\ RespondFallback(r, Ok) =>
                /\ RefreshSettles(r) /\ refreshCall'[r].outcome = "ok"
                /\ localToken' = refreshCall[r].arg
          /\ \A st \in Statuses \ {Ok} :
                RespondFallback(r, st) =>
                   RefreshSettles(r) /\ refreshCall'[r].outcome = "failed"
          /\ (RefreshSettles(r) /\ refreshCall'[r].outcome = "failed") =>
                \E st \in Statuses \ {Ok} : RespondFallback(r, st)]_vars

\* C23: a 401 that arrives while no token is stored starts no refresh call:
\* the request is rejected, isRefreshing is false afterwards and the stored
\* token is still absent.
C23_NoTokenNoRefresh ==
    [][\A r \in Reqs :
          (localToken = NoToken /\ Respond(r, Unauthorized)) =>
             /\ requests'[r].st = "rejected"
             /\ requests'[r].err # "none"
             /\ ~isRefreshing'
             /\ localToken' = NoToken
             /\ RefreshInFlight' = {}
             /\ refreshCall' = refreshCall]_vars

\* C23 witness: a request sent without a token has been answered 401 and is
\* rejected with the refresh error, no refresh call having been made
C23_Witness ==
    /\ lastResp.call = "req" /\ lastResp.status = Unauthorized
    /\ ~lastResp.wasRetry
    /\ requests[lastResp.id].st = "rejected"
    /\ requests[lastResp.id].err = "refreshError"
    /\ requests[lastResp.id].sends = 1
    /\ refreshCall[lastResp.id] = NoRefresh
    /\ localToken = NoToken /\ ~isRefreshing

----------------------------------------------------------------------------
(* Claims about the admin AuthProvider *)

Done(t) == tasks[t].res # "none"

\* the refresh calls (POST auth/refresh-token) waiting for the server
AdminRefreshOnNetwork ==
    {t \in Tasks : tasks[t].stk # <<>> /\ Top(tasks[t].stk).k = "P"}

\* the activations of refreshToken() pending in chain t
RefreshActivations(t) ==
    {i \in 1 .. Len(tasks[t].stk) : tasks[t].stk[i].k \in {"R", "RL"}}

\* C7: every call to logout() eventually completes with adminToken,
\* refreshToken and adminUser removed, user null and isAuthenticated false,
\* whatever the server answers.
C7_LogoutEndsInNoSession ==
    \A t \in Tasks :
       [](tasks[t].kind = "logout" => <>(Done(t) /\ tasks[t].cleared))

\* C8: at most one refresh network call is in flight at any time.
C8_AtMostOneAdminRefresh ==
    Cardinality(AdminRefreshOnNetwork) <= 1

\* C9: the response interceptor sends no request more than twice, the
\* original send and one automatic retry.
C9_AtMostOneResend ==
    \A t \in Tasks :
       \A i \in 1 .. Len(tasks[t].stk) : tasks[t].stk[i].n <= 2

\* C10: when the refresh call made for a 401 fails, the chain ends with the
\* request rejected and the session cleared, and refreshToken() is not entered
\* again while an activation of it is pending in the same chain.
C10_FailedRefreshEndsSession ==
    \A t \in Tasks :
       /\ (Done(t) /\ tasks[t].failed) =>
             tasks[t].res = "rejected" /\ tasks[t].cleared
       /\ Cardinality(RefreshActivations(t)) <= 1

\* no credential is in sessionStorage or in the provider state
NoSession ==
    /\ adminToken = NoToken /\ storedRefreshToken = NoToken /\ adminUser = NoUser
    /\ user = NoUser /\ ~isAuthenticated

\* C13: once a call of logout() has completed, and no login() has been called,
\* no credential is present in storage or in the provider state, also after
\* the answer to a refresh call that was in flight during the logout.
C13_NoSessionAfterLogout ==
    (/\ \E t \in Tasks : tasks[t].kind = "logout" /\ Done(t)
     /\ \A t \in Tasks : tasks[t].kind # "login") => NoSession

\* the calls of login() that failed
FailedLogins ==
    {t \in Tasks : tasks[t].kind = "login" /\ tasks[t].res = "rejected"}

\* C16: two calls of login() that failed for different causes (the answer to
\* the login call was 401 for the one and another failure for the other)
\* report different errors to their callers.
C16_LoginErrorTellsCause ==
    \A t1, t2 \in FailedLogins :
       tasks[t1].cause # tasks[t2].cause => tasks[t1].err # tasks[t2].err

\* C24: isAuthenticated being true implies that adminToken is in storage, in
\* every reachable state: under every interleaving of login, logout,
\* refreshToken, the start-up effect and a getCurrentUser() whose answer
\* arrives after a logout.
C24_AuthenticatedHasToken ==
    isAuthenticated => adminToken # NoToken

\* the step ends the start-up effect
InitEnds == ~isInitialized /\ isInitialized'

\* the call answered in this step is the GET auth/me of the start-up chain
\* and the answer is 200: the restore has succeeded
RestoreSucceeds ==
    /\ Top(tasks[InitTask].stk).k = "PM"
    /\ Answer(InitTask, Ok)

\* C26: the start-up effect always finishes: isInitialized eventually becomes
\* true; when it does after a restore that succeeded, the provider is
\* authenticated with the fetched user, and when it does after a restore that
\* failed, adminToken, refreshToken and adminUser are removed, user is null
\* and isAuthenticated is false.
C26_InitFinishes ==
    /\ <>isInitialized
    /\ [][InitEnds =>
             IF RestoreSucceeds
             THEN isAuthenticated' /\ user' # NoUser /\ adminUser' = user'
             ELSE NoSession']_vars

----------------------------------------------------------------------------
(* Claims about the customer AuthProvider and about several portals *)

\* the answer to an application request of UserService is an error other
\* than 401: the request is rejected with that error, and the token, the
\* flag, the queue and the refresh calls are as before
PassesThroughUserService ==
    \A r \in Reqs :
       Respond(r, OtherError) =>
          /\ requests'[r].st = "rejected" /\ requests'[r].err = "own"
          /\ \A q \in Reqs \ {r} : requests'[q] = requests[q]
          /\ UNCHANGED <<localToken, isRefreshing, refreshSubscribers, refreshCall>>

\* the answer to a call refreshToken() of UserService made is an error other
\* than 401: the interceptor hands it to refreshToken(); it enqueues nothing
\* and starts no refresh
PassesThroughToRefreshToken ==
    \A r \in Reqs :
       (RespondRefresh(r, OtherError) \/ RespondFallback(r, OtherError)) =>
          /\ UNCHANGED refreshSubscribers
          /\ RefreshInFlight' \subseteq RefreshInFlight
          /\ \A q \in Reqs : requests'[q].st # "refreshing" \/ requests[q].st = "refreshing"

\* the answer to a call of the admin portal is an error other than 401: the
\* interceptor starts no refresh and is not pending afterwards; the error of
\* an application request reaches the caller with storage and state as before
PassesThroughAdmin ==
    \A t \in Tasks :
       Answer(t, OtherError) =>
          /\ Nest(tasks'[t].stk) <= Nest(tasks[t].stk)
          /\ Cardinality(RefreshActivations(t)') <= Cardinality(RefreshActivations(t))
          /\ tasks'[t].stk = <<>> \/ Top(tasks'[t].stk).k # "P"
          /\ Top(tasks[t].stk).k = "X" =>
                /\ tasks'[t].res = "rejected"
                /\ tasks'[t].err = NoError /\ tasks'[t].failed = tasks[t].failed
                /\ UNCHANGED <<adminToken, storedRefreshToken, adminUser, user,
                               isAuthenticated>>

\* C14: a response error that is not an authentication failure passes through
\* the response interceptor to the caller: it starts no refresh, enqueues
\* nothing and leaves the stored token, isRefreshing and the queue unchanged
\* (UserService and admin AuthProvider).
C14_OtherErrorsPassThrough ==
    [][PassesThroughUserService /\ PassesThroughToRefreshToken
       /\ PassesThroughAdmin]_vars

\* C14 witness: a request was answered with an error other than 401 and is
\* rejected with it while the stored token is still there
C14_Witness ==
    \/ /\ portal = "restaurant"
       /\ lastResp.call = "req" /\ lastResp.status = OtherError
       /\ requests[lastResp.id].st = "rejected" /\ requests[lastResp.id].err = "own"
       /\ localToken # NoToken /\ ~isRefreshing
    \/ /\ portal = "admin"
       /\ \E t \in Tasks : /\ tasks[t].kind = "request" /\ tasks[t].res = "rejected"
                           /\ ~tasks[t].failed
       /\ adminToken # NoToken

\* no credential is in localStorage or in the state of the customer provider
CustomerNoSession == ~Truthy(cToken) /\ cStored = Null /\ cUser = NoUser

\* C15: a login() that fails, or whose answer carries no token, while there
\* is no session leaves everything as it is: nothing is written to storage,
\* user stays null and the provider stays unauthenticated (customer
\* AuthProvider.login and admin AuthProvider.login).
C15_FailedLoginLeavesNoSession ==
    [][/\ \A c \in Calls, st \in Statuses, b \in Bodies :
             (/\ CustomerNoSession
              /\ CustomerLoginAnswer(c, st, b)
              /\ (st # Ok \/ b = Undefined)) => CustomerNoSession'
       /\ \A t \in Tasks, st \in Statuses :
             (/\ NoSession
              /\ tasks[t].kind = "login"
              /\ Answer(t, st)
              /\ tasks'[t].res = "rejected") => NoSession']_vars

\* the exp claim of the token can be decoded
ExpDecodes(tok) == tok.kind = "jwt"

\* sessionTimeRemaining has just been computed: by the timer, or by the
\* effect after token has changed
Recomputed == CustomerTick \/ cToken' # cToken

\* C17: sessionTimeRemaining is null exactly when there is no token or the
\* exp claim of the token cannot be decoded; otherwise it is the whole
\* seconds left until exp when it was computed, clamped at 0; it is never
\* negative.
C17_SessionTimeRemaining ==
    /\ [](/\ sessionTimeRemaining.isNull <=> (~Truthy(cToken) \/ ~ExpDecodes(cToken))
          /\ sessionTimeRemaining.secs >= 0)
    /\ [][(Recomputed /\ Truthy(cToken') /\ ExpDecodes(cToken')) =>
             \E n \in 0 .. MaxExp :
                /\ sessionTimeRemaining' = Seconds(n)
                /\ \/ n = 0 /\ cToken'.exp * 1000 - now' * MsPerStep < 1000
                   \/ /\ n > 0
                      /\ n * 1000 <= cToken'.exp * 1000 - now' * MsPerStep
                      /\ cToken'.exp * 1000 - now' * MsPerStep < (n + 1) * 1000]_vars

\* the stored token is the access token every request just sent carries, and
\* a request sent while no token is stored carries none (UserService)
SentWithStoredToken ==
    \A r \in Reqs :
       requests'[r].sends # requests[r].sends => requests'[r].hdr = localToken'

\* the same for the calls of the admin portal: a call chain that has moved
\* and waits for the network has just sent the call at its top
AdminSentWithStoredToken ==
    \A t \in Tasks :
       (/\ tasks'[t].stk # tasks[t].stk
        /\ tasks'[t].stk # <<>>
        /\ Top(tasks'[t].stk).k \in NetFrames) =>
          Top(tasks'[t].stk).h = adminToken'

\* C18: every outgoing request, replayed ones included, carries the access
\* token stored at the moment it is sent, and no credential when no token is
\* stored (UserService and admin AuthProvider).
C18_RequestsCarryStoredToken ==
    [][SentWithStoredToken /\ AdminSentWithStoredToken]_vars

\* C18 witness: a request is on the network for the second time, after a
\* refresh, with the refreshed token that is now stored
C18_Witness ==
    \/ \E r \in Reqs :
          /\ requests[r].st = "sent" /\ requests[r].sends = 2
          /\ requests[r].hdr = localToken /\ requests[r].hdr # requests[r].rej
    \/ \E t \in Tasks :
          /\ tasks[t].stk # <<>>
          /\ Top(tasks[t].stk).k = "X" /\ Top(tasks[t].stk).n = 2
          /\ Top(tasks[t].stk).h = adminToken /\ adminToken # NoToken

\* C19: a tick of the session timer, the one on which the value reaches 0
\* included, changes sessionTimeRemaining only: token, user and the persisted
\* token stay as they are and no refresh, login or loadUser call is made.
C19_TickChangesTimeOnly ==
    [][CustomerTick => UNCHANGED <<cToken, cUser, cStored, cCalls, cLoads>>]_vars

\* C21: when refreshToken() of the customer AuthProvider fails, the persisted
\* token is removed, token and user become null, the user-logout event is
\* dispatched and the call returns false; when it succeeds, the token of the
\* answer replaces the old one in the state and (as the string setItem
\* stores) in storage, user is unchanged and the call returns true.
C21_CustomerRefreshOutcome ==
    [][\A c \in Calls, st \in Statuses, b \in Bodies :
          CustomerRefreshAnswer(c, st, b) =>
             IF st = Ok
             THEN /\ cToken' = b /\ cStored' = setItem(b)
                  /\ cUser' = cUser
                  /\ cCalls'[c].result = "true" /\ ~cCalls'[c].notified
             ELSE /\ cStored' = Null /\ cToken' = Null /\ cUser' = NoUser
                  /\ cCalls'[c].notified
                  /\ cCalls'[c].result = "false"]_vars

\* C21 witness: one refreshToken() has succeeded and another one has failed,
\* has dispatched the event and has left no session
C21_Witness ==
    \E c, d \in Calls :
       /\ cCalls[c].kind = "refresh" /\ cCalls[c].result = "false"
       /\ cCalls[c].notified
       /\ cCalls[d].kind = "refresh" /\ cCalls[d].result = "true"
       /\ cToken = Null /\ cStored = Null /\ cUser = NoUser

\* a login() has succeeded and its session is the current one
LoginSessionCurrent ==
    /\ \E c \in Calls : cCalls[c].kind = "login" /\ cCalls[c].result = "true"
    /\ Truthy(cToken) /\ cStored = cToken /\ cUser # NoUser

\* C25: the failure of the start-up restore (the GET /auth/me that loadUser
\* sent for the token found in storage) does not remove the token that a
\* login installed while the restore call was in flight. (While no
\* refreshToken() has been called the only loadUser call is the one of
\* start-up.)
C25_FailedRestoreKeepsLoginToken ==
    [][\A st \in Statuses \ {Ok} :
          (/\ CustomerLoadAnswer(st)
           /\ \A c \in Calls : cCalls[c].kind # "refresh"
           /\ LoginSessionCurrent) =>
             UNCHANGED <<cToken, cStored>>]_vars

\* C19 witness: the timer has brought sessionTimeRemaining to 0 for the token
\* the portal started with, and the session is still there
C19_Witness ==
    /\ \A c \in Calls : cCalls[c].st = "idle"
    /\ cToken = Jwt(1) /\ cStored = cToken
    /\ sessionTimeRemaining = Seconds(0)
    /\ now * MsPerStep >= 1000

----------------------------------------------------------------------------
(* Claims about the NotificationProvider *)

\* every notification of the list is marked read
AllRead(ns) == \A i \in 1 .. Len(ns) : ns[i].read

\* the mark-read calls are issued one at a time and in list order: the calls
\* issued so far are a prefix of the list, each issued after all the earlier
\* ones had succeeded, and a call that ended without a failure has issued
\* one call per listed notification
OnePerNotificationInOrder ==
    /\ markAll.posted = SubSeq(markAll.list, 1, Len(markAll.posted))
    /\ markAll.st = "posting" => markAll.oks = Len(markAll.posted) - 1
    /\ (markAll.st = "done" /\ ~markAll.failed /\ ~markAll.skipped) =>
          /\ markAll.posted = markAll.list
          /\ markAll.oks = Len(markAll.list)

\* the local state is updated when the last call has succeeded, and only
\* then: a failure and every earlier success leave it as it is
AllOrNothing ==
    /\ MarkSettles(FALSE) => UNCHANGED <<notifications, unreadCount>>
    /\ MarkSettles(TRUE) =>
          IF markAll'.st = "done"
          THEN AllRead(notifications') /\ unreadCount' = 0
          ELSE UNCHANGED <<notifications, unreadCount>>

\* C27 (as stated): markAllAsRead issues one mark-read call per listed
\* notification, one at a time and in list order, and updates the local
\* state all-or-nothing.
C27_OneCallPerNotification ==
    (markAll.st = "done" /\ ~markAll.failed) => markAll.posted = markAll.list

\* C27 (amended): when adminToken and the _id of adminUser are in
\* sessionStorage, markAllAsRead issues one mark-read call per listed
\* notification, one at a time and in list order, each after the previous one
\* has succeeded; if every call succeeds all notifications are marked read
\* and unreadCount becomes 0, and if a call fails notifications and
\* unreadCount are left unchanged.  When adminToken or the _id is missing it
\* issues no call and changes nothing.
C27_MarkAllSequentialAllOrNothing ==
    /\ [](OnePerNotificationInOrder)
    /\ [](markAll.skipped => markAll.posted = <<>>)
    /\ [][AllOrNothing]_vars
    /\ [][(StartMarkAll /\ markAll'.skipped) =>
             UNCHANGED <<notifications, unreadCount>>]_vars

\* C27 witness: markAllAsRead() has posted one call for each notification of
\* a list of several, every call has succeeded, and all are marked read
C27_Witness ==
    /\ markAll.st = "done" /\ ~markAll.failed /\ ~markAll.skipped
    /\ Len(markAll.list) = MaxNotes
    /\ markAll.posted = markAll.list
    /\ Ids(notifications) = markAll.list
    /\ AllRead(notifications) /\ unreadCount = 0

====
